---- MODULE Spec2Model ----
(***************************************************************************)
(* Model of x-pack/legacy/plugins/reporting/export_types/png/server/       *)
(* create_job/index.ts: the i18n check script (run callback: flag          *)
(* validation, the three-stage Listr task list and the final error         *)
(* disposition of the catch block) and the createJob function of the PNG   *)
(* export type.                                                            *)
(***************************************************************************)
EXTENDS Integers, Sequences, FiniteSets, TLC

\* ------------------------------------------------------------------ bounds
MaxTranslations == 2
MaxExtract == 2

\* ------------------------------------------------------- program constants
\* srcCodePaths = ['./src', './packages', './x-pack']
NumSrcCodePaths == 3
\* the three top-level tasks of `list`
NumStages == 3
ScanStage == 1
ExtractStage == 2
CompatStage == 3

VARIABLES
  flags,          \* the destructured command-line flags (before the default of fix)
  pc,             \* position of the run callback
  configLoaded,   \* mergeConfigs has resolved
  translations,   \* config.translations
  listCreated,    \* `list` has been constructed
  reporterCreated,\* `reporter` has been constructed
  reporter,       \* reporter.errors
  messages,       \* keys of the context's message catalog
  stageSt,        \* state of each top-level task of `list`
  subtasks,       \* states of the sub-tasks of each stage's nested Listr
  subErrors,      \* `errors` array of each stage's nested Listr
  listErrors,     \* `errors` array of `list`
  mergeCalls,     \* options of every integrateLocaleFiles call, in call order
  thrown,         \* the error list.run rejected with
  exitCode,       \* process.exitCode
  hardExit,       \* process.exit() was called in the catch block
  logged,         \* log.error calls, in order
  failError,      \* the fail error thrown out of the callback
  job             \* the createJob call: its arguments, position and result

vars == <<flags, pc, configLoaded, translations, listCreated, reporterCreated,
          reporter, messages, stageSt, subtasks, subErrors, listErrors,
          mergeCalls, thrown, exitCode, hardExit, logged, failError, job>>

\* ------------------------------------------------------------ flag values
\* A flag value is "undef" (not given), a boolean ("true"/"false"), a
\* non-empty string ("str") or the empty string ("estr").  Every flag ranges
\* over values of each type its checks tell apart.
IgnoreVals == {"undef", "true", "false"}
ToleranceVals == {"undef", "true"}
UntrackedVals == {"undef", "true", "false", "str"}
PathVals == {"undef", "true"}
IncludeConfigVals == {"undef", "true"}
FixVals == {"undef", "true", "str", "estr"}

RunFlags ==
  [ignoreIncompatible : IgnoreVals, ignoreMissing : ToleranceVals,
   ignoreUnused : ToleranceVals, includeConfig : IncludeConfigVals,
   ignoreUntracked : UntrackedVals, fix : FixVals, path : PathVals]

TypeOf(v) ==
  IF v = "undef" THEN "undefined"
  ELSE IF v \in {"true", "false"} THEN "boolean"
  ELSE "string"

Truthy(v) == v \in {"true", "str"}

\* Variant of Fix without the destructuring default.
FixNoDefault(f) == f.fix

\* fix = false : the destructuring default applies to an undefined flag only
Fix(f) == IF f.fix = "undef" THEN "false" ELSE f.fix

\* Variant of IncompatibleFlags that leaves --ignore-untracked out of the test.
IncompatibleFlagsNoUntracked(f) ==
  /\ Truthy(Fix(f))
  /\ \/ f.ignoreIncompatible # "undef"
     \/ f.ignoreUnused # "undef"
     \/ f.ignoreMissing # "undef"

IncompatibleFlags(f) ==
  /\ Truthy(Fix(f))
  /\ \/ f.ignoreIncompatible # "undef"
     \/ f.ignoreUnused # "undef"
     \/ f.ignoreMissing # "undef"
     \/ f.ignoreUntracked # "undef"

\* Variant of RequireValue that tests --path only.
RequireValuePathOnly(f) == TypeOf(f.path) = "boolean"

RequireValue(f) ==
  TypeOf(f.path) = "boolean" \/ TypeOf(f.includeConfig) = "boolean"

FixHasValue(f) == TypeOf(Fix(f)) # "boolean"

UntrackedHasValue(f) ==
  TypeOf(f.ignoreUntracked) # "undefined" /\ TypeOf(f.ignoreUntracked) # "boolean"

\* Variant of ValidateFlags that tests for missing values first.
ValidateFlagsValueFirst(f) ==
  IF RequireValue(f) THEN "requiresValue"
  ELSE IF IncompatibleFlags(f) THEN "incompatible"
  ELSE IF FixHasValue(f) THEN "fixValue"
  ELSE IF UntrackedHasValue(f) THEN "untrackedValue"
  ELSE "none"

\* Variant of ValidateFlags without the --ignore-untracked type check.
ValidateFlagsNoUntracked(f) ==
  IF IncompatibleFlags(f) THEN "incompatible"
  ELSE IF RequireValue(f) THEN "requiresValue"
  ELSE IF FixHasValue(f) THEN "fixValue"
  ELSE "none"

\* The four checks in source order; "none" when all pass.
ValidateFlags(f) ==
  IF IncompatibleFlags(f) THEN "incompatible"
  ELSE IF RequireValue(f) THEN "requiresValue"
  ELSE IF FixHasValue(f) THEN "fixValue"
  ELSE IF UntrackedHasValue(f) THEN "untrackedValue"
  ELSE "none"

\* ---------------------------------------------------------------- errors
Sep == [stage |-> 0, idx |-> 0]               \* the '\n\n' separator
SubError(k, i) == [stage |-> k, idx |-> i]    \* error of sub-task i of stage k
NoError == [name |-> "none", hasErrors |-> FALSE, errors |-> <<>>, cause |-> Sep]
PlainError(k, i) ==
  [name |-> "Error", hasErrors |-> FALSE, errors |-> <<>>, cause |-> SubError(k, i)]
ListrError(errs) ==
  [name |-> "ListrError", hasErrors |-> TRUE, errors |-> errs, cause |-> Sep]

NoFail == [kind |-> "none", text |-> <<>>]
FailError(kind, text) == [kind |-> kind, text |-> text]

RECURSIVE Join(_)
Join(s) ==
  IF s = <<>> THEN <<>>
  ELSE IF Len(s) = 1 THEN <<s[1]>>
  ELSE <<s[1], Sep>> \o Join(Tail(s))

\* -------------------------------------------------------------- createJob
\* Arguments of createJob: the job parameters, the request headers and the
\* request (its base path).
JobObjectTypes == {"visualization", "dashboard"}
JobTitles == {"Sales", "Traffic"}
JobRelativeUrls == {"/app/kibana#/visualize", "//evil.example/x", "http://evil.example/x"}
JobTimezones == {"UTC", "Europe/Paris"}
JobLayouts == {"preserve_layout", "png"}
JobHeaders == {[enc |-> FALSE, data |-> "cookie-a"], [enc |-> FALSE, data |-> "cookie-b"]}
JobBasePaths == {"", "/s/sales"}
JobClock == {"2019-01-01T00:00:00.000Z", "2019-01-02T00:00:00.000Z"}

JobParams ==
  [objectType : JobObjectTypes, title : JobTitles, relativeUrl : JobRelativeUrls,
   browserTimezone : JobTimezones, layout : JobLayouts]

\* crypto.encrypt: the serialized encrypted form of the headers.
Encrypt(h) == [enc |-> TRUE, data |-> h.data]

\* validateUrls accepts a relative URL and throws on one that names a host.
ValidUrl(u) == u = "/app/kibana#/visualize"

\* No createJob call (the script runs on its own).
JobNone ==
  [pc |-> "none",
   params |-> [objectType |-> "visualization", title |-> "Sales",
               relativeUrl |-> "/app/kibana#/visualize",
               browserTimezone |-> "UTC", layout |-> "png"],
   headers |-> [enc |-> FALSE, data |-> "cookie-a"], basePath |-> "",
   encrypted |-> <<>>, payload |-> <<>>, error |-> "none"]

\* Variant of JobPayload that passes the request headers on as they came.
JobPayloadPlainHeaders(j, enc, now) ==
  [objectType |-> j.params.objectType,
   title |-> j.params.title,
   relativeUrl |-> j.params.relativeUrl,
   headers |-> j.headers,
   browserTimezone |-> j.params.browserTimezone,
   layout |-> j.params.layout,
   basePath |-> j.basePath,
   forceNow |-> now]

\* Lines 24-33: the returned object.
JobPayload(j, enc, now) ==
  [objectType |-> j.params.objectType,
   title |-> j.params.title,
   relativeUrl |-> j.params.relativeUrl,
   headers |-> enc,
   browserTimezone |-> j.params.browserTimezone,
   layout |-> j.params.layout,
   basePath |-> j.basePath,
   forceNow |-> now]

\* ----------------------------------------------------------------- Init
Init ==
  /\ flags \in RunFlags
  /\ pc = "validate"
  /\ configLoaded = FALSE
  /\ translations = <<>>
  /\ listCreated = FALSE
  /\ reporterCreated = FALSE
  /\ reporter = <<>>
  /\ messages = {}
  /\ stageSt = [k \in 1..NumStages |-> "pending"]
  /\ subtasks = [k \in 1..NumStages |-> <<>>]
  /\ subErrors = [k \in 1..NumStages |-> <<>>]
  /\ listErrors = <<>>
  /\ mergeCalls = <<>>
  /\ thrown = NoError
  /\ exitCode = 0
  /\ hardExit = FALSE
  /\ logged = <<>>
  /\ failError = NoFail
  /\ job = JobNone

\* ------------------------------------------------------------ validation
\* Lines 76-106: the four checks, then the call of mergeConfigs.
Validate ==
  /\ pc = "validate"
  /\ IF ValidateFlags(flags) # "none"
       THEN /\ failError' = FailError(ValidateFlags(flags), <<>>)
            /\ pc' = "thrown"
       ELSE /\ failError' = failError
            /\ pc' = "mergeConfigs"
  /\ UNCHANGED <<job, flags, configLoaded, translations, listCreated, reporterCreated,
                 reporter, messages, stageSt, subtasks, subErrors, listErrors,
                 mergeCalls, thrown, exitCode, hardExit, logged>>

\* ------------------------------------------------------- the task list
\* Variant of ListOptions with a concurrent top-level list.
ListOptionsConcurrent == [concurrent |-> TRUE, exitOnError |-> TRUE]

\* Options of `list` (lines 172-175).
ListOptions == [concurrent |-> FALSE, exitOnError |-> TRUE]

\* Variants of StageOptions: the extraction list exiting on error, and the
\* compatibility list exiting on error.
StageOptionsExtractExits(k) ==
  IF k = ScanStage THEN [concurrent |-> FALSE, exitOnError |-> TRUE]
  ELSE IF k = ExtractStage THEN [concurrent |-> FALSE, exitOnError |-> TRUE]
  ELSE [concurrent |-> TRUE, exitOnError |-> FALSE]

StageOptionsCompatExits(k) ==
  IF k = ScanStage THEN [concurrent |-> FALSE, exitOnError |-> TRUE]
  ELSE IF k = ExtractStage THEN [concurrent |-> FALSE, exitOnError |-> FALSE]
  ELSE [concurrent |-> TRUE, exitOnError |-> TRUE]

\* Options of the nested Listr of each stage (lines 154, 161, 168); a nested
\* list without `concurrent` runs its tasks one at a time.
StageOptions(k) ==
  IF k = ScanStage THEN [concurrent |-> FALSE, exitOnError |-> TRUE]
  ELSE IF k = ExtractStage THEN [concurrent |-> FALSE, exitOnError |-> FALSE]
  ELSE [concurrent |-> TRUE, exitOnError |-> FALSE]

\* Variant of StageEnabled in which every stage is always enabled.
StageEnabledAlways(k, f) == TRUE

\* enabled: () => !ignoreUntracked ; a task without `enabled` is enabled
StageEnabled(k, f) == IF k = ScanStage THEN ~Truthy(f.ignoreUntracked) ELSE TRUE

\* Variants of MergeOptions: one that always names the translation file as
\* the write target, one whose ignore options leave fix out.
MergeOptionsAlwaysTarget(tp, f) ==
  [sourceFileName |-> tp,
   targetFileName |-> tp,
   dryRun |-> ~Truthy(Fix(f)),
   ignoreIncompatible |-> (Truthy(Fix(f)) \/ Truthy(f.ignoreIncompatible)),
   ignoreUnused |-> (Truthy(Fix(f)) \/ Truthy(f.ignoreUnused)),
   ignoreMissing |-> (Truthy(Fix(f)) \/ Truthy(f.ignoreMissing))]

MergeOptionsOwnFlagOnly(tp, f) ==
  [sourceFileName |-> tp,
   targetFileName |-> IF Truthy(Fix(f)) THEN tp ELSE 0,
   dryRun |-> ~Truthy(Fix(f)),
   ignoreIncompatible |-> Truthy(f.ignoreIncompatible),
   ignoreUnused |-> Truthy(f.ignoreUnused),
   ignoreMissing |-> Truthy(f.ignoreMissing)]

\* Options object of the integrateLocaleFiles call for translationsPath tp;
\* targetFileName 0 stands for undefined.
MergeOptions(tp, f) ==
  [sourceFileName |-> tp,
   targetFileName |-> IF Truthy(Fix(f)) THEN tp ELSE 0,
   dryRun |-> ~Truthy(Fix(f)),
   ignoreIncompatible |-> (Truthy(Fix(f)) \/ Truthy(f.ignoreIncompatible)),
   ignoreUnused |-> (Truthy(Fix(f)) \/ Truthy(f.ignoreUnused)),
   ignoreMissing |-> (Truthy(Fix(f)) \/ Truthy(f.ignoreMissing))]

\* What a sub-task of stage k may do before it settles: <<rep, thr>>, rep =
\* it appends one entry to the reporter, thr = it rejects.  The compatibility
\* sub-task hands integrateLocaleFiles no reporter.
SubOutcomes(k) ==
  IF k = CompatStage THEN {<<FALSE, FALSE>>, <<FALSE, TRUE>>}
  ELSE BOOLEAN \X BOOLEAN

\* Number of sub-tasks the nested list of stage k is built with.
SubCounts(k) ==
  IF k = ScanStage THEN {NumSrcCodePaths}
  ELSE IF k = ExtractStage THEN 1..MaxExtract
  ELSE {Len(translations)}

\* Whether a rejecting sub-task of stage k ends the nested list's run.  Listr
\* takes exitOnError from the options of the list a task belongs to; of a task
\* object it reads title, task, skip and enabled, so the exitOnError: false
\* that line 143 puts on the scan sub-tasks is not consulted.
ExitsOnError(k) == StageOptions(k).exitOnError

Finished(st) == st \in {"completed", "failed", "skipped"}
Settled(st) == st \in {"ok", "failed"}

\* Variant of ShortCircuit that never returns early.
ShortCircuitNever(tr) == FALSE

\* Line 108: config.translations.length === 0
ShortCircuit(tr) == Len(tr) = 0

\* Lines 106-180: mergeConfigs resolves; with no translation the callback
\* returns, otherwise it builds `list` and the reporter and calls list.run.
MergeConfigsResolved ==
  /\ pc = "mergeConfigs"
  /\ \E n \in 0..MaxTranslations :
       /\ translations' = [i \in 1..n |-> i]
       /\ configLoaded' = TRUE
       /\ IF ShortCircuit([i \in 1..n |-> i])
            THEN /\ pc' = "returned"
                 /\ UNCHANGED <<listCreated, reporterCreated>>
            ELSE /\ pc' = "run"
                 /\ listCreated' = TRUE
                 /\ reporterCreated' = TRUE
  /\ UNCHANGED <<job, flags, reporter, messages, stageSt, subtasks, subErrors,
                 listErrors, mergeCalls, thrown, exitCode, hardExit, logged,
                 failError>>

\* Listr starts the next top-level task: a disabled task is skipped, an
\* enabled one calls its task function, which builds the nested list; a
\* concurrent nested list launches all its sub-tasks together.
StartStage(k) ==
  /\ pc = "run"
  /\ stageSt[k] = "pending"
  /\ ListOptions.concurrent \/ \A j \in 1..(k - 1) : Finished(stageSt[j])
  /\ IF ~StageEnabled(k, flags)
       THEN /\ stageSt' = [stageSt EXCEPT ![k] = "skipped"]
            /\ UNCHANGED <<subtasks, mergeCalls>>
       ELSE /\ stageSt' = [stageSt EXCEPT ![k] = "running"]
            /\ \E n \in SubCounts(k) :
                 subtasks' = [subtasks EXCEPT ![k] =
                   [i \in 1..n |->
                      IF StageOptions(k).concurrent THEN "running" ELSE "idle"]]
            /\ mergeCalls' =
                 IF StageOptions(k).concurrent /\ k = CompatStage
                   THEN mergeCalls \o
                        [i \in 1..Len(translations) |->
                           MergeOptions(translations[i], flags)]
                   ELSE mergeCalls
  /\ UNCHANGED <<job, flags, pc, configLoaded, translations, listCreated,
                 reporterCreated, reporter, messages, subErrors, listErrors,
                 thrown, exitCode, hardExit, logged, failError>>

\* A sequential nested list starts its next sub-task once the previous one
\* has settled.
StartSub(k, i) ==
  /\ pc = "run"
  /\ stageSt[k] = "running"
  /\ ~StageOptions(k).concurrent
  /\ i \in 1..Len(subtasks[k])
  /\ subtasks[k][i] = "idle"
  /\ \A j \in 1..(i - 1) : Settled(subtasks[k][j])
  /\ subtasks' = [subtasks EXCEPT ![k][i] = "running"]
  /\ mergeCalls' =
       IF k = CompatStage
         THEN Append(mergeCalls, MergeOptions(translations[i], flags))
         ELSE mergeCalls
  /\ UNCHANGED <<job, flags, pc, configLoaded, translations, listCreated,
                 reporterCreated, reporter, messages, stageSt, subErrors,
                 listErrors, thrown, exitCode, hardExit, logged, failError>>

\* A running sub-task settles.  A rejection is pushed on the nested list's
\* errors; when the nested list exits on error the rejection goes up through
\* the stage's task (pushed on list's errors) and, `list` exiting on error
\* too, list.run rejects with it.
FinishSub(k, i) ==
  /\ pc = "run"
  /\ stageSt[k] = "running"
  /\ i \in 1..Len(subtasks[k])
  /\ subtasks[k][i] = "running"
  /\ \E o \in SubOutcomes(k) :
       /\ reporter' = IF o[1] THEN Append(reporter, SubError(k, i)) ELSE reporter
       /\ messages' = IF k = ExtractStage THEN messages \cup {i} ELSE messages
       /\ subtasks' = [subtasks EXCEPT ![k][i] = IF o[2] THEN "failed" ELSE "ok"]
       /\ subErrors' = IF o[2] THEN [subErrors EXCEPT ![k] = Append(@, SubError(k, i))]
                       ELSE subErrors
       /\ IF o[2] /\ ExitsOnError(k)
            THEN /\ stageSt' = [stageSt EXCEPT ![k] = "failed"]
                 /\ listErrors' = Append(listErrors, SubError(k, i))
                 /\ IF ListOptions.exitOnError
                      THEN /\ thrown' = PlainError(k, i)
                           /\ pc' = "catch"
                      ELSE UNCHANGED <<thrown, pc>>
            ELSE UNCHANGED <<stageSt, listErrors, thrown, pc>>
  /\ UNCHANGED <<job, flags, configLoaded, translations, listCreated, reporterCreated,
                 mergeCalls, exitCode, hardExit, logged, failError>>

\* All sub-tasks of the nested list have settled: with collected errors the
\* nested run rejects with a ListrError, which the stage's task reports to
\* `list` (its errors are pushed on list's errors) without rethrowing.
EndStage(k) ==
  /\ pc = "run"
  /\ stageSt[k] = "running"
  /\ \A i \in 1..Len(subtasks[k]) : Settled(subtasks[k][i])
  /\ IF subErrors[k] # <<>>
       THEN /\ stageSt' = [stageSt EXCEPT ![k] = "failed"]
            /\ listErrors' = listErrors \o subErrors[k]
       ELSE /\ stageSt' = [stageSt EXCEPT ![k] = "completed"]
            /\ UNCHANGED listErrors
  /\ UNCHANGED <<job, flags, pc, configLoaded, translations, listCreated,
                 reporterCreated, reporter, messages, subtasks, subErrors,
                 mergeCalls, thrown, exitCode, hardExit, logged, failError>>

\* Line 180: every top-level task is over; list.run rejects with a ListrError
\* carrying the collected errors, or resolves and the callback returns.
EndRun ==
  /\ pc = "run"
  /\ \A k \in 1..NumStages : Finished(stageSt[k])
  /\ IF listErrors # <<>>
       THEN /\ thrown' = ListrError(listErrors)
            /\ pc' = "catch"
       ELSE /\ pc' = "returned"
            /\ UNCHANGED thrown
  /\ UNCHANGED <<job, flags, configLoaded, translations, listCreated, reporterCreated,
                 reporter, messages, stageSt, subtasks, subErrors, listErrors,
                 mergeCalls, exitCode, hardExit, logged, failError>>

\* ------------------------------------------------------ final disposition
LogEntry(kind, e) == [kind |-> kind, err |-> e]

\* Variant of CatchExitCode that leaves the exit code as it was.
CatchExitCodeKept(code) == code

\* Line 182: process.exitCode = 1, whatever it was
CatchExitCode(code) == 1

\* Variants of Disposition: one that never consults the reporter, one that
\* does not test the reporter's length, one that consults the reporter before
\* the error's list.
DispositionNeverReported(err, rep) ==
  IF ~err.hasErrors THEN "unhandled" ELSE "partial"

DispositionAlwaysReported(err, rep) ==
  IF ~err.hasErrors THEN "unhandled"
  ELSE IF err.name = "ListrError" THEN "reported"
  ELSE "partial"

DispositionReporterFirst(err, rep) ==
  IF Len(rep) > 0 THEN "reported"
  ELSE IF ~err.hasErrors THEN "unhandled"
  ELSE "partial"

\* Lines 184-196: which branch of the catch block handles error err when the
\* reporter holds rep.
Disposition(err, rep) ==
  IF ~err.hasErrors THEN "unhandled"
  ELSE IF err.name = "ListrError" /\ Len(rep) > 0 THEN "reported"
  ELSE "partial"

\* Lines 181-197.
CatchBlock ==
  /\ pc = "catch"
  /\ exitCode' = CatchExitCode(exitCode)
  /\ IF Disposition(thrown, reporter) = "unhandled"
       THEN /\ logged' = logged \o <<LogEntry("unhandled", Sep),
                                     LogEntry("error", thrown.cause)>>
            /\ hardExit' = TRUE
            /\ pc' = "exited"
            /\ UNCHANGED failError
       ELSE IF Disposition(thrown, reporter) = "reported"
         THEN /\ failError' = FailError("aggregate", Join(reporter))
              /\ pc' = "thrown"
              /\ UNCHANGED <<logged, hardExit>>
         ELSE /\ logged' = logged \o
                   [i \in 1..Len(thrown.errors) |-> LogEntry("sub", thrown.errors[i])]
              /\ pc' = "returned"
              /\ UNCHANGED <<failError, hardExit>>
  /\ UNCHANGED <<job, flags, configLoaded, translations, listCreated, reporterCreated,
                 reporter, messages, stageSt, subtasks, subErrors, listErrors,
                 mergeCalls, thrown>>

\* The `run` helper around the callback: a callback that returns lets the
\* process end with process.exitCode; a fail error is printed as one message
\* and the process exits with 1.
RunExit ==
  /\ pc \in {"returned", "thrown"}
  /\ pc' = "exited"
  /\ IF pc = "thrown"
       THEN /\ logged' = Append(logged, LogEntry("fail", Sep))
            /\ exitCode' = 1
       ELSE UNCHANGED <<logged, exitCode>>
  /\ UNCHANGED <<job, flags, configLoaded, translations, listCreated, reporterCreated,
                 reporter, messages, stageSt, subtasks, subErrors, listErrors,
                 mergeCalls, thrown, hardExit, failError>>

Next ==
  \/ Validate
  \/ MergeConfigsResolved
  \/ \E k \in 1..NumStages : StartStage(k)
  \/ \E k \in 1..NumStages : \E i \in 1..(NumSrcCodePaths + MaxExtract + MaxTranslations) : StartSub(k, i)
  \/ \E k \in 1..NumStages : \E i \in 1..(NumSrcCodePaths + MaxExtract + MaxTranslations) : FinishSub(k, i)
  \/ \E k \in 1..NumStages : EndStage(k)
  \/ EndRun
  \/ CatchBlock
  \/ RunExit

Spec == Init /\ [][Next]_vars

\* ------------------------------------------------- createJob, on its own
NoFlags ==
  [ignoreIncompatible |-> "undef", ignoreMissing |-> "undef",
   ignoreUnused |-> "undef", includeConfig |-> "undef",
   ignoreUntracked |-> "undef", fix |-> "undef", path |-> "undef"]

\* A createJob call with any arguments; the script is not running.
InitJob ==
  /\ \E p \in JobParams : \E h \in JobHeaders : \E b \in JobBasePaths :
       job = [pc |-> "idle", params |-> p, headers |-> h, basePath |-> b,
              encrypted |-> <<>>, payload |-> <<>>, error |-> "none"]
  /\ flags = NoFlags
  /\ pc = "none"
  /\ configLoaded = FALSE
  /\ translations = <<>>
  /\ listCreated = FALSE
  /\ reporterCreated = FALSE
  /\ reporter = <<>>
  /\ messages = {}
  /\ stageSt = [k \in 1..NumStages |-> "pending"]
  /\ subtasks = [k \in 1..NumStages |-> <<>>]
  /\ subErrors = [k \in 1..NumStages |-> <<>>]
  /\ listErrors = <<>>
  /\ mergeCalls = <<>>
  /\ thrown = NoError
  /\ exitCode = 0
  /\ hardExit = FALSE
  /\ logged = <<>>
  /\ failError = NoFail

\* Line 20: createJob calls crypto.encrypt(headers) and awaits it.
CreateJobCall ==
  /\ job.pc = "idle"
  /\ job' = [job EXCEPT !.pc = "encrypting"]
  /\ UNCHANGED <<flags, pc, configLoaded, translations, listCreated,
                 reporterCreated, reporter, messages, stageSt, subtasks,
                 subErrors, listErrors, mergeCalls, thrown, exitCode, hardExit,
                 logged, failError>>

\* Lines 20-33: the encryption resolves; validateUrls throws on a rejected
\* URL, otherwise the payload is returned.
CreateJobEncrypted ==
  /\ job.pc = "encrypting"
  /\ \E now \in JobClock :
       job' = IF ValidUrl(job.params.relativeUrl)
                THEN [job EXCEPT !.pc = "returned",
                                 !.encrypted = <<Encrypt(job.headers)>>,
                                 !.payload = <<JobPayload(job, Encrypt(job.headers), now)>>]
                ELSE [job EXCEPT !.pc = "failed",
                                 !.encrypted = <<Encrypt(job.headers)>>,
                                 !.error = "url"]
  /\ UNCHANGED <<flags, pc, configLoaded, translations, listCreated,
                 reporterCreated, reporter, messages, stageSt, subtasks,
                 subErrors, listErrors, mergeCalls, thrown, exitCode, hardExit,
                 logged, failError>>

\* Line 20: the encryption rejects and createJob rejects with it.
CreateJobEncryptRejected ==
  /\ job.pc = "encrypting"
  /\ job' = [job EXCEPT !.pc = "failed", !.error = "encrypt"]
  /\ UNCHANGED <<flags, pc, configLoaded, translations, listCreated,
                 reporterCreated, reporter, messages, stageSt, subtasks,
                 subErrors, listErrors, mergeCalls, thrown, exitCode, hardExit,
                 logged, failError>>

NextJob ==
  \/ CreateJobCall
  \/ CreateJobEncrypted
  \/ CreateJobEncryptRejected

SpecJob == InitJob /\ [][NextJob]_vars

\* =================================================================== claims

\* C1: in a run that passes validation and has a translation path, the stages
\* run in the order scan (when enabled), extraction, compatibility: a later
\* stage is started, and any of its sub-tasks is started, only when the
\* earlier stage is over and every sub-task of it has settled; so no
\* compatibility sub-task runs while an extraction sub-task can still write
\* the catalog.
C1_StageOrder ==
  \A k \in 1..NumStages : \A l \in 1..NumStages :
    (k < l /\ (stageSt[l] # "pending"
               \/ \E i \in 1..Len(subtasks[l]) : subtasks[l][i] # "idle"))
    => /\ stageSt[k] \in {"completed", "failed", "skipped"}
       /\ \A j \in 1..Len(subtasks[k]) : subtasks[k][j] \in {"ok", "failed"}
       /\ (k = ScanStage =>
             Len(subtasks[k]) = IF flags.ignoreUntracked \in {"undef", "false"}
                                  THEN NumSrcCodePaths ELSE 0)
       /\ (k = ExtractStage => Len(subtasks[k]) >= 1)

C1_Witness ==
  /\ \E i \in 1..Len(subtasks[CompatStage]) : subtasks[CompatStage][i] = "running"
  /\ stageSt[ScanStage] = "completed"
  /\ stageSt[ExtractStage] = "failed"
  /\ Len(subtasks[ExtractStage]) = 2

\* C2: when list.run has rejected with an error whose error list is non-empty
\* and the reporter holds an entry, the catch block leaves exit code 1, throws
\* one fail error whose message is the reporter's entries in order separated
\* by the separator, and logs no sub-error.
C2_ReportedFailure ==
  (/\ pc \in {"thrown", "returned", "exited"}
   /\ thrown.hasErrors /\ thrown.errors # <<>> /\ reporter # <<>>)
  => /\ exitCode = 1
     /\ failError.kind = "aggregate"
     /\ Len(failError.text) = 2 * Len(reporter) - 1
     /\ \A i \in 1..Len(reporter) : failError.text[2 * i - 1] = reporter[i]
     /\ \A i \in 1..(Len(reporter) - 1) : failError.text[2 * i] = Sep
     /\ \A i \in 1..Len(logged) : logged[i].kind # "sub"
     /\ pc # "returned"
     /\ ~hardExit

C2_Witness ==
  /\ pc = "exited"
  /\ thrown.hasErrors
  /\ Len(reporter) >= 2
  /\ failError.kind = "aggregate"

\* C3: when list.run has rejected with an error whose error list is non-empty
\* and the reporter is empty, the catch block logs every sub-error of the
\* list, in list order, leaves exit code 1 and throws nothing: the callback
\* returns.
C3_PartialFailure ==
  (/\ pc \in {"thrown", "returned", "exited"}
   /\ thrown.hasErrors /\ thrown.errors # <<>> /\ reporter = <<>>)
  => /\ exitCode = 1
     /\ failError.kind = "none"
     /\ pc \in {"returned", "exited"}
     /\ ~hardExit
     /\ Len(logged) = Len(thrown.errors)
     /\ \A i \in 1..Len(logged) :
          logged[i].kind = "sub" /\ logged[i].err = thrown.errors[i]

C3_Witness ==
  /\ pc = "exited"
  /\ thrown.hasErrors
  /\ reporter = <<>>
  /\ Len(thrown.errors) >= 2
  /\ Len(logged) >= 2

\* C4: when list.run has rejected with an error that has no error list, the
\* catch block logs "Unhandled exception!" and the error and ends the process
\* at once: the callback neither returns nor throws, no fail error is thrown
\* and no sub-error is logged, whatever the reporter holds.
C4_UnhandledFailure ==
  (thrown.name # "none" /\ ~thrown.hasErrors /\ pc # "catch")
  => /\ hardExit
     /\ pc = "exited"
     /\ failError.kind = "none"
     /\ Len(logged) = 2
     /\ logged[1].kind = "unhandled"
     /\ logged[2].kind = "error" /\ logged[2].err = thrown.cause

C4_Witness ==
  /\ hardExit
  /\ pc = "exited"
  /\ ~thrown.hasErrors
  /\ reporter # <<>>

\* C5: the final exit code is 0 exactly when validation passed and list.run
\* did not reject (every stage being over when there was one to run); it is 1
\* after every rejection with an error list; and the exit code is never 1
\* while no error has been raised.
C5_ExitCode ==
  /\ exitCode \in {0, 1}
  /\ pc = "exited" =>
       (exitCode = 0 <=>
          /\ failError.kind \notin {"incompatible", "requiresValue",
                                    "fixValue", "untrackedValue"}
          /\ thrown.name = "none")
  /\ (pc = "exited" /\ exitCode = 0 /\ translations # <<>>) =>
       \A k \in 1..NumStages : stageSt[k] \in {"completed", "skipped"}
  /\ (pc = "exited" /\ thrown.hasErrors) => exitCode = 1
  /\ exitCode = 1 => (thrown.name # "none" \/ failError.kind # "none")

C5_Witness ==
  /\ pc = "exited"
  /\ exitCode = 0
  /\ stageSt[ScanStage] = "completed"
  /\ stageSt[CompatStage] = "completed"

\* C6: when the loaded config has no translation path the callback returns at
\* once: no list and no reporter is created, no stage and no sub-task runs,
\* nothing is logged or thrown and the exit code stays 0, whatever the flags
\* that passed validation.
C6_ShortCircuit ==
  (configLoaded /\ translations = <<>>)
  => /\ pc \in {"returned", "exited"}
     /\ ~listCreated /\ ~reporterCreated
     /\ \A k \in 1..NumStages : stageSt[k] = "pending" /\ subtasks[k] = <<>>
     /\ mergeCalls = <<>> /\ reporter = <<>> /\ messages = {}
     /\ logged = <<>> /\ failError.kind = "none" /\ thrown.name = "none"
     /\ exitCode = 0 /\ ~hardExit

C6_Witness ==
  /\ pc = "exited"
  /\ configLoaded /\ translations = <<>>
  /\ flags.ignoreUnused = "true" /\ flags.ignoreUntracked = "false"

\* C7: with fix = true and any of the four ignore flags given (true or
\* false), validation fails with the incompatible-flags error.
C7_IncompatibleFlags ==
  (/\ pc # "validate"
   /\ flags.fix = "true"
   /\ \/ flags.ignoreIncompatible # "undef" \/ flags.ignoreUnused # "undef"
      \/ flags.ignoreMissing # "undef" \/ flags.ignoreUntracked # "undef")
  => /\ failError.kind = "incompatible"
     /\ pc \in {"thrown", "exited"}
     /\ ~configLoaded

C7_Witness ==
  /\ pc = "exited"
  /\ flags.fix = "true"
  /\ flags.ignoreUntracked = "false"
  /\ flags.ignoreIncompatible = "undef" /\ flags.ignoreUnused = "undef"
  /\ flags.ignoreMissing = "undef"
  /\ failError.kind = "incompatible"

\* C8 as stated: with a boolean path or a boolean includeConfig, validation
\* fails with the requires-a-value error.
C8_Original ==
  (/\ pc # "validate"
   /\ flags.path \in {"true", "false"} \/ flags.includeConfig \in {"true", "false"})
  => failError.kind = "requiresValue"

\* C8 amended: with a boolean path or a boolean includeConfig validation
\* always fails; it fails with the requires-a-value error unless fix is truthy
\* and an ignore flag is given, and with the incompatible-flags error then.
C8_RequireValue ==
  (/\ pc # "validate"
   /\ flags.path \in {"true", "false"} \/ flags.includeConfig \in {"true", "false"})
  => /\ pc \in {"thrown", "exited"}
     /\ ~configLoaded
     /\ failError.kind =
          IF /\ flags.fix \in {"true", "str"}
             /\ \/ flags.ignoreIncompatible # "undef" \/ flags.ignoreUnused # "undef"
                \/ flags.ignoreMissing # "undef" \/ flags.ignoreUntracked # "undef"
            THEN "incompatible" ELSE "requiresValue"

C8_Witness ==
  /\ pc = "exited"
  /\ flags.path = "undef" /\ flags.includeConfig = "true"
  /\ flags.fix = "undef" /\ flags.ignoreMissing = "true"
  /\ failError.kind = "requiresValue"

\* C9 as stated: with a fix that is not a boolean, validation fails with the
\* --fix-can't-have-a-value error; an omitted fix passes that check.
C9_Original ==
  /\ (pc # "validate" /\ flags.fix \in {"str", "estr"}) => failError.kind = "fixValue"
  /\ flags.fix = "undef" => failError.kind # "fixValue"

\* C9 amended: with a fix that is not a boolean validation always fails; it
\* fails with the --fix-can't-have-a-value error unless the incompatible-flags
\* test (a truthy fix with an ignore flag given) or the requires-a-value test
\* (a boolean path or includeConfig) fails first.  An omitted fix counts as
\* false and never fails that check.
C9_FixValue ==
  /\ (pc # "validate" /\ flags.fix \in {"str", "estr"})
     => /\ pc \in {"thrown", "exited"}
        /\ ~configLoaded
        /\ failError.kind =
             IF /\ flags.fix = "str"
                /\ \/ flags.ignoreIncompatible # "undef" \/ flags.ignoreUnused # "undef"
                   \/ flags.ignoreMissing # "undef" \/ flags.ignoreUntracked # "undef"
               THEN "incompatible"
             ELSE IF flags.path \in {"true", "false"}
                     \/ flags.includeConfig \in {"true", "false"}
               THEN "requiresValue"
             ELSE "fixValue"
  /\ flags.fix = "undef" => failError.kind \notin {"fixValue", "incompatible"}
  /\ (/\ pc # "validate" /\ flags.fix = "undef"
      /\ flags.path \notin {"true", "false"}
      /\ flags.includeConfig \notin {"true", "false"}
      /\ flags.ignoreUntracked # "str")
     => pc # "thrown" \/ failError.kind = "aggregate"

C9_Witness ==
  /\ pc = "exited"
  /\ flags.fix = "estr"
  /\ flags.ignoreIncompatible = "true"
  /\ failError.kind = "fixValue"

\* C10: whenever one of the four validator conditions holds, the callback
\* fails before the config is loaded, before the list and the reporter are
\* created and before any stage or sub-task runs; when none holds, validation
\* changes nothing and the callback goes on to load the config.
C10_AnyCondition ==
  \/ /\ flags.fix \in {"true", "str"}
     /\ \/ flags.ignoreIncompatible # "undef" \/ flags.ignoreUnused # "undef"
        \/ flags.ignoreMissing # "undef" \/ flags.ignoreUntracked # "undef"
  \/ flags.path \in {"true", "false"} \/ flags.includeConfig \in {"true", "false"}
  \/ flags.fix \in {"str", "estr"}
  \/ flags.ignoreUntracked \in {"str", "estr"}

C10_FailFast ==
  /\ [](C10_AnyCondition =>
          /\ pc \in {"validate", "thrown", "exited"}
          /\ (pc # "validate" =>
                failError.kind \in {"incompatible", "requiresValue",
                                    "fixValue", "untrackedValue"})
          /\ ~configLoaded /\ ~listCreated /\ ~reporterCreated
          /\ translations = <<>> /\ reporter = <<>> /\ messages = {}
          /\ \A k \in 1..NumStages : stageSt[k] = "pending" /\ subtasks[k] = <<>>
          /\ mergeCalls = <<>> /\ thrown.name = "none" /\ ~hardExit)
  /\ [][(pc = "validate" /\ ~C10_AnyCondition) =>
          /\ pc' = "mergeConfigs"
          /\ UNCHANGED <<job, flags, configLoaded, translations, listCreated,
                         reporterCreated, reporter, messages, stageSt, subtasks,
                         subErrors, listErrors, mergeCalls, thrown, exitCode,
                         hardExit, logged, failError>>]_vars

C10_Witness ==
  /\ pc = "exited"
  /\ flags.ignoreUntracked = "str"
  /\ failError.kind = "untrackedValue"
  /\ ~configLoaded
\* C11 as stated: the scan sub-tasks run one at a time in source-path order,
\* and a failing scan sub-task is not fatal: once the task list is over, every
\* scan sub-task of an enabled scan stage has been attempted; with the 2nd
\* failing and the others succeeding, the 3rd has been attempted and the
\* reporter holds the 2nd's entry only.
C11_ScanNonFatal ==
  /\ \A i \in 1..Len(subtasks[ScanStage]) : \A j \in 1..Len(subtasks[ScanStage]) :
       (i < j /\ subtasks[ScanStage][j] # "idle")
         => subtasks[ScanStage][i] \in {"ok", "failed"}
  /\ (pc \in {"catch", "returned", "thrown", "exited"}
      /\ stageSt[ScanStage] \in {"running", "completed", "failed"})
     => \A i \in 1..NumSrcCodePaths : subtasks[ScanStage][i] # "idle"
  /\ (/\ pc \in {"catch", "returned", "thrown", "exited"}
      /\ Len(subtasks[ScanStage]) = NumSrcCodePaths
      /\ subtasks[ScanStage][1] = "ok"
      /\ subtasks[ScanStage][2] = "failed")
     => /\ subtasks[ScanStage][3] \in {"ok", "failed"}
        /\ \A n \in 1..Len(reporter) :
             reporter[n].stage = ScanStage => reporter[n].idx # 1
\* C12 as stated: the first failing extraction sub-task aborts the stage's
\* remaining sub-tasks (none is started afterwards); the failure does not
\* end the process and is surfaced through the run-level error.
C12_Original ==
  /\ \A i \in 1..Len(subtasks[ExtractStage]) : \A j \in 1..Len(subtasks[ExtractStage]) :
       (i < j /\ subtasks[ExtractStage][i] = "failed")
         => subtasks[ExtractStage][j] = "idle"
  /\ \A i \in 1..Len(subtasks[ExtractStage]) :
       (pc \in {"returned", "thrown", "exited"} /\ subtasks[ExtractStage][i] = "failed")
         => /\ ~hardExit
            /\ thrown.name = "ListrError"

\* C12 amended: a failing extraction sub-task aborts nothing: the stage's
\* remaining sub-tasks and the compatibility stage still run to the end; the
\* failure does not end the process and is an element of the error list of
\* the ListrError list.run rejects with at the end of the run.
C12_ExtractionFailure ==
  \A i \in 1..Len(subtasks[ExtractStage]) :
    subtasks[ExtractStage][i] = "failed"
    => /\ pc # "run" =>
            /\ \A j \in 1..Len(subtasks[ExtractStage]) :
                 subtasks[ExtractStage][j] \in {"ok", "failed"}
            /\ Len(subtasks[CompatStage]) = Len(translations)
            /\ \A j \in 1..Len(subtasks[CompatStage]) :
                 subtasks[CompatStage][j] \in {"ok", "failed"}
            /\ thrown.name = "ListrError"
            /\ \E n \in 1..Len(thrown.errors) :
                 thrown.errors[n] = [stage |-> ExtractStage, idx |-> i]
       /\ ~hardExit
       /\ pc \in {"run", "catch", "returned", "thrown", "exited"}

C12_Witness ==
  /\ pc = "exited"
  /\ subtasks[ExtractStage] = <<"failed", "ok">>
  /\ subtasks[CompatStage] = <<"ok", "ok">>
\* C13: the compatibility stage has one sub-task per translation path, all
\* launched together; while any of them is still running the task list keeps
\* running, whatever its siblings did, so each one settles with its own
\* result; and at the end of the run every failed one is an element of the
\* error list of the ListrError list.run rejects with.
C13_CompatConcurrent ==
  /\ stageSt[CompatStage] # "pending" =>
       /\ Len(subtasks[CompatStage]) = Len(translations)
       /\ Len(mergeCalls) = Len(translations)
       /\ \A i \in 1..Len(translations) :
            /\ mergeCalls[i].sourceFileName = translations[i]
            /\ subtasks[CompatStage][i] # "idle"
  /\ \A i \in 1..Len(subtasks[CompatStage]) :
       subtasks[CompatStage][i] = "running" =>
         /\ pc = "run"
         /\ stageSt[CompatStage] = "running"
         /\ \A n \in 1..Len(listErrors) : listErrors[n].stage # CompatStage
  /\ (pc \in {"catch", "returned", "thrown", "exited"}
      /\ stageSt[CompatStage] # "pending") =>
       \A i \in 1..Len(translations) :
         /\ subtasks[CompatStage][i] \in {"ok", "failed"}
         /\ subtasks[CompatStage][i] = "failed" =>
              /\ thrown.name = "ListrError"
              /\ \E n \in 1..Len(thrown.errors) :
                   thrown.errors[n] = [stage |-> CompatStage, idx |-> i]
         /\ subtasks[CompatStage][i] = "ok" =>
              \A n \in 1..Len(thrown.errors) :
                thrown.errors[n] # [stage |-> CompatStage, idx |-> i]

C13_Witness ==
  /\ pc = "run"
  /\ subtasks[CompatStage] = <<"running", "failed">>

\* C14: every integrateLocaleFiles call reads its own translation path, has
\* dryRun = NOT fix and a write target that is that same path when fix is set
\* and absent otherwise; so without fix no call has a write target, and with
\* fix no call's write target is the file a sibling reads.
C14_MergeTarget ==
  \A n \in 1..Len(mergeCalls) :
    /\ mergeCalls[n].sourceFileName = translations[n]
    /\ mergeCalls[n].dryRun = (flags.fix # "true")
    /\ mergeCalls[n].targetFileName = IF flags.fix = "true" THEN translations[n] ELSE 0
    /\ \A m \in 1..Len(mergeCalls) :
         (m # n /\ mergeCalls[n].targetFileName # 0)
           => mergeCalls[n].targetFileName # mergeCalls[m].sourceFileName

C14_Witness ==
  /\ Len(mergeCalls) = 2
  /\ flags.fix = "true"
  /\ mergeCalls[2].targetFileName = translations[2]
  /\ ~mergeCalls[2].dryRun

\* C15: in every integrateLocaleFiles call each of the three ignore options
\* is true exactly when fix is set or its own flag is true (an unset flag
\* counting as false), whatever the other flags and ignoreUntracked are.
C15_IgnoreOptions ==
  \A n \in 1..Len(mergeCalls) :
    /\ mergeCalls[n].ignoreIncompatible
         = (flags.fix = "true" \/ flags.ignoreIncompatible = "true")
    /\ mergeCalls[n].ignoreUnused = (flags.fix = "true" \/ flags.ignoreUnused = "true")
    /\ mergeCalls[n].ignoreMissing = (flags.fix = "true" \/ flags.ignoreMissing = "true")

C15_Witness ==
  /\ mergeCalls # <<>>
  /\ flags.fix = "undef"
  /\ flags.ignoreIncompatible = "false" /\ flags.ignoreUnused = "true"
  /\ flags.ignoreMissing = "undef" /\ flags.ignoreUntracked = "true"
  /\ mergeCalls[1].ignoreUnused
  /\ ~mergeCalls[1].ignoreIncompatible /\ ~mergeCalls[1].ignoreMissing
\* C16 as stated: no sub-task error is swallowed: when the process has ended,
\* every sub-task rejection and every reporter entry is either part of the
\* thrown fail error's message or was logged.
C16_NeverSwallowed ==
  pc = "exited" =>
    /\ \A k \in 1..NumStages : \A i \in 1..Len(subtasks[k]) :
         subtasks[k][i] = "failed" =>
           \/ \E n \in 1..Len(failError.text) :
                failError.text[n] = [stage |-> k, idx |-> i]
           \/ \E n \in 1..Len(logged) :
                /\ logged[n].kind \in {"sub", "error"}
                /\ logged[n].err = [stage |-> k, idx |-> i]
    /\ \A r \in 1..Len(reporter) :
         \/ \E n \in 1..Len(failError.text) : failError.text[n] = reporter[r]
         \/ \E n \in 1..Len(logged) :
              logged[n].kind \in {"sub", "error"} /\ logged[n].err = reporter[r]

\* C17 as stated: a run at whose end the reporter holds an entry never ends
\* in success, that is with exit code 0 and nothing thrown or logged.
C17_ReporterDecides ==
  (pc = "exited" /\ reporter # <<>>)
  => ~(exitCode = 0 /\ failError.kind = "none" /\ logged = <<>>)

\* C18: the scan stage is enabled exactly when ignoreUntracked is false or
\* unset: with ignoreUntracked = true the stage is skipped, no scan sub-task
\* exists and the reporter receives no scan entry, while extraction and then
\* the compatibility checks run to their end; the extraction stage is never
\* skipped, and runs in every run whose task list was not ended by a scan
\* sub-task.
C18_ScanEnabled ==
  /\ flags.ignoreUntracked = "true" =>
       /\ stageSt[ScanStage] \in {"pending", "skipped"}
       /\ subtasks[ScanStage] = <<>>
       /\ subErrors[ScanStage] = <<>>
       /\ \A n \in 1..Len(reporter) : reporter[n].stage # ScanStage
       /\ ~hardExit
       /\ (listCreated /\ pc # "run") =>
            \A k \in {ExtractStage, CompatStage} :
              /\ stageSt[k] \in {"completed", "failed"}
              /\ Len(subtasks[k]) >= 1
              /\ \A i \in 1..Len(subtasks[k]) : subtasks[k][i] \in {"ok", "failed"}
       /\ stageSt[CompatStage] # "pending" =>
            stageSt[ExtractStage] \in {"completed", "failed"}
  /\ (flags.ignoreUntracked \in {"undef", "false"} /\ stageSt[ScanStage] # "pending") =>
       /\ stageSt[ScanStage] # "skipped"
       /\ Len(subtasks[ScanStage]) = NumSrcCodePaths
  /\ stageSt[ExtractStage] # "skipped" /\ stageSt[CompatStage] # "skipped"
  /\ (listCreated /\ pc # "run" /\ stageSt[ScanStage] # "failed") =>
       /\ stageSt[ExtractStage] \in {"completed", "failed"}
       /\ Len(subtasks[ExtractStage]) >= 1

C18_Witness ==
  /\ pc = "exited"
  /\ flags.ignoreUntracked = "true"
  /\ stageSt = <<"skipped", "completed", "completed">>
  /\ Len(subtasks[ExtractStage]) = 2
\* C19: createJob encrypts the headers before it validates relativeUrl and
\* builds the payload only after both: a rejected URL makes the call fail
\* with no payload (the headers having been encrypted already); a returned
\* payload carries objectType, title, relativeUrl, browserTimezone and layout
\* as given, the encrypted headers and not the plain ones, and the request's
\* base path.
C19_CreateJob ==
  /\ job.pc = "failed" => job.payload = <<>>
  /\ (job.pc \in {"returned", "failed"} /\ job.error # "encrypt") =>
       job.encrypted = <<[enc |-> TRUE, data |-> job.headers.data]>>
  /\ (job.encrypted # <<>> /\ job.params.relativeUrl # "/app/kibana#/visualize") =>
       /\ job.pc = "failed"
       /\ job.error = "url"
  /\ job.pc = "returned" =>
       /\ job.params.relativeUrl = "/app/kibana#/visualize"
       /\ Len(job.payload) = 1
       /\ job.payload[1].objectType = job.params.objectType
       /\ job.payload[1].title = job.params.title
       /\ job.payload[1].relativeUrl = job.params.relativeUrl
       /\ job.payload[1].browserTimezone = job.params.browserTimezone
       /\ job.payload[1].layout = job.params.layout
       /\ job.payload[1].headers = job.encrypted[1]
       /\ job.payload[1].headers # job.headers
       /\ job.payload[1].basePath = job.basePath

C19_Witness ==
  /\ job.pc = "returned"
  /\ job.basePath = "/s/sales"
  /\ job.params.objectType = "dashboard"
  /\ Len(job.payload) = 1
  /\ job.payload[1].headers.enc
\* C20: the validator's checks are tried in a fixed order and one error is
\* raised per run: the incompatible-flags error (on a truthy fix, boolean or
\* not, with an ignore flag given) wins over the requires-a-value error, which
\* wins over the --fix-can't-have-a-value error, which wins over the
\* --ignore-untracked-can't-have-a-value error; the last one is reported only
\* with fix false (omitted or given as false); and a validation error, once
\* raised, is never replaced.
C20_Incompatible ==
  /\ flags.fix \in {"true", "str"}
  /\ \/ flags.ignoreIncompatible # "undef" \/ flags.ignoreUnused # "undef"
     \/ flags.ignoreMissing # "undef" \/ flags.ignoreUntracked # "undef"

C20_RequiresValue ==
  flags.path \in {"true", "false"} \/ flags.includeConfig \in {"true", "false"}

C20_FixValue == flags.fix \in {"str", "estr"}

C20_UntrackedValue == flags.ignoreUntracked \in {"str", "estr"}

C20_ValidatorOrder ==
  /\ [](pc # "validate" =>
          /\ C20_Incompatible => failError.kind = "incompatible"
          /\ (~C20_Incompatible /\ C20_RequiresValue) => failError.kind = "requiresValue"
          /\ (~C20_Incompatible /\ ~C20_RequiresValue /\ C20_FixValue)
               => failError.kind = "fixValue"
          /\ (~C20_Incompatible /\ ~C20_RequiresValue /\ ~C20_FixValue
              /\ C20_UntrackedValue) => failError.kind = "untrackedValue"
          /\ failError.kind = "untrackedValue" => flags.fix \in {"undef", "false"}
          /\ failError.kind \in {"incompatible", "requiresValue", "fixValue",
                                 "untrackedValue"}
               => /\ pc \in {"thrown", "exited"}
                  /\ thrown.name = "none"
                  /\ Len(logged) <= 1)
  /\ [][failError.kind \in {"incompatible", "requiresValue", "fixValue",
                            "untrackedValue"}
          => failError' = failError]_vars

C20_Witness ==
  /\ pc = "exited"
  /\ flags.fix = "str" /\ flags.ignoreUntracked = "str"
  /\ flags.path = "true" /\ flags.includeConfig = "true"
  /\ failError.kind = "incompatible"
  /\ Len(logged) = 1
====
